---- MODULE Spec2Model ----
(***************************************************************************)
(* Model of src/account-manager/onboarding.js                              *)
(*                                                                         *)
(*   - the session store: runtimeSessionStore, deriveSessionId,            *)
(*     generateBinaryStyleId, clearSessionStore (lines 128-178);           *)
(*   - the onboarding poll loop: onboardUser (lines 46-111).               *)
(*                                                                         *)
(* JavaScript values are modelled as strings; the two values that are not  *)
(* strings in the program, undefined and null, are the reserved strings    *)
(* Undefined and Null.  The run-to-completion rule of the JavaScript event *)
(* loop makes every stretch of code between two awaits one atomic step.    *)
(***************************************************************************)
EXTENDS Integers, Sequences, FiniteSets, TLC

VARIABLES
    runtimeSessionStore, \* the Map of line 128: a function account -> session id
    now,                 \* the value Date.now() returns
    draws,               \* how many identifiers crypto.randomUUID() has drawn
    sessionLog,          \* history: the session store calls made, in order
    pc,                  \* onboardUser: where the call stands
    tierId,              \* onboardUser: parameter
    projectId,           \* onboardUser: parameter
    maxAttempts,         \* onboardUser: parameter
    requestBody,         \* onboardUser: the body built at lines 47-65
    endpointCount,       \* onboardUser: ONBOARD_USER_ENDPOINTS.length
    endpoint,            \* onboardUser: index of the endpoint of the outer loop
    attempt,             \* onboardUser: the counter of the inner loop
    data,                \* onboardUser: what the last request came back with
    result,              \* onboardUser: the value the call returned
    sent,                \* history: the body of every request sent, in order
    trace,               \* history: the steps of the onboardUser call, in order
    allowedTiers,        \* getDefaultTierId: the argument of the call made
    defaultTierId        \* getDefaultTierId: the value the call returned

sessionVars == <<runtimeSessionStore, now, draws, sessionLog>>
onboardVars == <<pc, tierId, projectId, maxAttempts, requestBody,
                 endpointCount, endpoint,
                 attempt, data, result, sent, trace>>
tierVars == <<allowedTiers, defaultTierId>>
vars == <<runtimeSessionStore, now, draws, sessionLog,
          pc, tierId, projectId, maxAttempts, requestBody, endpointCount,
          endpoint, attempt, data, result, sent, trace,
          allowedTiers, defaultTierId>>

(***************************************************************************)
(* Bounds of the model.                                                    *)
(***************************************************************************)
MaxCalls == 3        \* session store calls in one behaviour
MaxTicks == 1        \* milliseconds the clock advances in one behaviour
NumEndpoints == 2    \* longest ONBOARD_USER_ENDPOINTS list tried
MaxAttemptsArg == 2  \* largest maxAttempts argument tried
MaxTiers == 3        \* longest allowedTiers list tried

(***************************************************************************)
(* JavaScript values.                                                      *)
(***************************************************************************)
Undefined == "<undefined>"
Null == "<null>"
None == "<none>"      \* a history field that does not apply

True == "<true>"
False == "<false>"

\* !v for the values the model uses: undefined, null, false and "" are falsy.
Falsy(v) == v \in {Undefined, Null, False, ""}
Truthy(v) == ~Falsy(v)

(***************************************************************************)
(* Session store (lines 121-178).                                          *)
(***************************************************************************)
ClockStart == 9      \* Date.now() when the process starts

Accounts == {"a@x.com", "b@x.com"}
\* The accountEmail arguments tried: two accounts, and the three absent forms.
AccountArgs == Accounts \cup {"", Undefined, Null}
Tasks == {"t1", "t2"}

HexDigits == <<"0", "1", "2", "3", "4", "5", "6", "7", "8", "9",
               "a", "b", "c", "d", "e", "f">>
DecDigits == <<"0", "1", "2", "3", "4", "5", "6", "7", "8", "9">>

\* crypto.randomUUID(): the canonical 36-character text of a version 4 UUID.
\* u numbers the draws of the process; the generator is taken to be ideal,
\* so different draws give different identifiers (u fills the last digits).
randomUUID(u) ==
    "00000000-0000-4000-8000-0000000000"
        \o HexDigits[((u \div 16) % 16) + 1] \o HexDigits[(u % 16) + 1]

\* Number.prototype.toString() of a non-negative integer: decimal digits.
RECURSIVE toString(_)
toString(n) ==
    IF n < 10 THEN DecDigits[n + 1]
    ELSE toString(n \div 10) \o DecDigits[(n % 10) + 1]

\* generateBinaryStyleId without the random part.
generateBinaryStyleIdClockOnly(u, t) == toString(t)

\* generateBinaryStyleId with a separator between its two parts.
generateBinaryStyleIdDashed(u, t) == randomUUID(u) \o "-" \o toString(t)

\* Line 170: crypto.randomUUID() + Date.now().toString()
generateBinaryStyleId(u, t) == randomUUID(u) \o toString(t)

\* The anthropicRequest argument of request task t; the tasks' requests
\* differ in their first user message.
AnthropicRequest(t) == [messages |-> <<"message of " \o t>>]

\* Map.prototype.set
MapSet(store, k, v) ==
    [x \in DOMAIN store \cup {k} |-> IF x = k THEN v ELSE store[x]]

\* deriveSessionId without the lookup of lines 152-154: every call for an
\* account generates an identifier and overwrites the stored one.
deriveSessionIdNoLookup(store, anthropicRequest, accountEmail, u, t) ==
    IF Falsy(accountEmail)
    THEN [ret |-> generateBinaryStyleId(u, t), store |-> store,
          line |-> 148, generated |-> TRUE]
    ELSE [ret |-> generateBinaryStyleId(u, t),
          store |-> MapSet(store, accountEmail, generateBinaryStyleId(u, t)),
          line |-> 162, generated |-> TRUE]

\* deriveSessionId generating before the lookup and returning what it
\* generated, although it keeps the identifier already stored.
deriveSessionIdReturnsNew(store, anthropicRequest, accountEmail, u, t) ==
    IF Falsy(accountEmail)
    THEN [ret |-> generateBinaryStyleId(u, t), store |-> store,
          line |-> 148, generated |-> TRUE]
    ELSE IF accountEmail \in DOMAIN store
    THEN [ret |-> generateBinaryStyleId(u, t), store |-> store,
          line |-> 153, generated |-> TRUE]
    ELSE [ret |-> generateBinaryStyleId(u, t),
          store |-> MapSet(store, accountEmail, generateBinaryStyleId(u, t)),
          line |-> 162, generated |-> TRUE]

\* deriveSessionId without the guard of lines 146-149: an absent account is
\* looked up and stored like any other key.
deriveSessionIdNoGuard(store, anthropicRequest, accountEmail, u, t) ==
    IF accountEmail \in DOMAIN store
    THEN [ret |-> store[accountEmail], store |-> store,
          line |-> 153, generated |-> FALSE]
    ELSE [ret |-> generateBinaryStyleId(u, t),
          store |-> MapSet(store, accountEmail, generateBinaryStyleId(u, t)),
          line |-> 162, generated |-> TRUE]

\* deriveSessionId as its file header describes it ("derived from the first
\* user message"): the record is kept under the first message of the
\* request, not under the account.
deriveSessionIdFromMessage(store, anthropicRequest, accountEmail, u, t) ==
    IF Falsy(accountEmail)
    THEN [ret |-> generateBinaryStyleId(u, t), store |-> store,
          line |-> 148, generated |-> TRUE]
    ELSE IF anthropicRequest.messages[1] \in DOMAIN store
    THEN [ret |-> store[anthropicRequest.messages[1]], store |-> store,
          line |-> 153, generated |-> FALSE]
    ELSE [ret |-> generateBinaryStyleId(u, t),
          store |-> MapSet(store, anthropicRequest.messages[1],
                           generateBinaryStyleId(u, t)),
          line |-> 162, generated |-> TRUE]

\* Lines 145-163.  u is the draw randomUUID would make and t the clock;
\* the result gives the returned value, the store afterwards, the line of
\* the return statement taken and whether generateBinaryStyleId was called.
deriveSessionId(store, anthropicRequest, accountEmail, u, t) ==
    IF Falsy(accountEmail)
    THEN [ret |-> generateBinaryStyleId(u, t), store |-> store,
          line |-> 148, generated |-> TRUE]
    ELSE IF accountEmail \in DOMAIN store
    THEN [ret |-> store[accountEmail], store |-> store,
          line |-> 153, generated |-> FALSE]
    ELSE LET newSessionId == generateBinaryStyleId(u, t)
         IN  [ret |-> newSessionId,
              store |-> MapSet(store, accountEmail, newSessionId),
              line |-> 162, generated |-> TRUE]

\* clearSessionStore leaving the Map as it is.
clearSessionStoreKeeps(store) == store

\* clearSessionStore removing one record only.
clearSessionStoreOneKey(store) ==
    IF DOMAIN store = {} THEN store
    ELSE [k \in DOMAIN store \ {CHOOSE x \in DOMAIN store : TRUE} |->
             store[k]]

\* Lines 176-178: Map.prototype.clear
clearSessionStore(store) == <<>>

SessionInit ==
    /\ runtimeSessionStore = <<>>
    /\ now = ClockStart
    /\ draws = 0
    /\ sessionLog = <<>>

\* Request task t calls deriveSessionId(_, a).  The function has no await,
\* so the call is one step of the event loop whichever tasks are in flight.
Derive(t, a) ==
    /\ Len(sessionLog) < MaxCalls
    /\ LET r == deriveSessionId(runtimeSessionStore, AnthropicRequest(t), a,
                               draws + 1, now)
       IN  /\ runtimeSessionStore' = r.store
           /\ draws' = IF r.generated THEN draws + 1 ELSE draws
           /\ sessionLog' = Append(sessionLog,
                  [op |-> "derive", task |-> t, accountEmail |-> a,
                   ret |-> r.ret, line |-> r.line])
    /\ now' = now
    /\ UNCHANGED <<onboardVars, tierVars>>

Clear ==
    /\ Len(sessionLog) < MaxCalls
    /\ runtimeSessionStore' = clearSessionStore(runtimeSessionStore)
    /\ sessionLog' = Append(sessionLog,
           [op |-> "clear", task |-> None, accountEmail |-> None,
            ret |-> None, line |-> 177])
    /\ UNCHANGED <<now, draws>>
    /\ UNCHANGED <<onboardVars, tierVars>>

\* The wall clock advances.
Tick ==
    /\ now < ClockStart + MaxTicks
    /\ now' = now + 1
    /\ UNCHANGED <<runtimeSessionStore, draws, sessionLog>>
    /\ UNCHANGED <<onboardVars, tierVars>>

SessionNext ==
    \/ \E t \in Tasks, a \in AccountArgs : Derive(t, a)
    \/ Clear
    \/ Tick

(***************************************************************************)
(* onboardUser (lines 46-111).                                             *)
(***************************************************************************)
TierArgs == {"FREE", "PRO", "ULTRA"}
\* projectId: left out (the default, null), the empty string, or an identifier.
ProjectArgs == {Null, "", "my-project"}
MaxAttemptsArgs == 0 .. MaxAttemptsArg
\* The lengths of ONBOARD_USER_ENDPOINTS tried, the empty list included.
EndpointCounts == 0 .. NumEndpoints
\* ONBOARD_USER_ENDPOINTS, by position.
Endpoints == 1 .. endpointCount

\* Lines 47-55: metadata, with duetProject only for a truthy projectId.
Metadata(p) ==
    [k \in {"ideType", "platform", "pluginType"}
           \cup (IF Truthy(p) THEN {"duetProject"} ELSE {}) |->
        CASE k = "ideType" -> "IDE_UNSPECIFIED"
          [] k = "platform" -> "PLATFORM_UNSPECIFIED"
          [] k = "pluginType" -> "GEMINI"
          [] k = "duetProject" -> p]

\* The request body with the test of line 63 reduced to "if (projectId)".
BuildRequestBodyAnyTier(tier, p) ==
    [k \in {"tierId", "metadata"}
           \cup (IF Truthy(p) THEN {"cloudaicompanionProject"} ELSE {}) |->
        CASE k = "tierId" -> tier
          [] k = "metadata" -> Metadata(p)
          [] k = "cloudaicompanionProject" -> p]

\* Lines 57-65: the request body, an object whose domain is the set of
\* properties it has.
BuildRequestBody(tier, p) ==
    [k \in {"tierId", "metadata"}
           \cup (IF tier # "FREE" /\ Truthy(p)
                 THEN {"cloudaicompanionProject"} ELSE {}) |->
        CASE k = "tierId" -> tier
          [] k = "metadata" -> Metadata(p)
          [] k = "cloudaicompanionProject" -> p]

\* What a parsed response body can be: the JSON value null, a JSON value
\* that is no object (a number, a string, a boolean), or an object.  Of an
\* object the model keeps done, whether response and
\* response.cloudaicompanionProject are absent, null or objects, and
\* response.cloudaicompanionProject.id (a string when present).
DoneValues == {Undefined, False, True}
IdValues == {Undefined, "", "managed-X", "my-project"}
Bodies ==
    {[kind |-> "null", done |-> Undefined, response |-> Undefined,
      cloudaicompanionProject |-> Undefined, id |-> Undefined],
     [kind |-> "primitive", done |-> Undefined, response |-> Undefined,
      cloudaicompanionProject |-> Undefined, id |-> Undefined]}
    \cup {[kind |-> "object", done |-> d, response |-> r,
           cloudaicompanionProject |-> Undefined, id |-> Undefined] :
             d \in DoneValues, r \in {Undefined, Null}}
    \cup {[kind |-> "object", done |-> d, response |-> "object",
           cloudaicompanionProject |-> c, id |-> Undefined] :
             d \in DoneValues, c \in {Undefined, Null}}
    \cup {[kind |-> "object", done |-> d, response |-> "object",
           cloudaicompanionProject |-> "object", id |-> i] :
             d \in DoneValues, i \in IdValues}
NoBody == [kind |-> None, done |-> Undefined, response |-> Undefined,
           cloudaicompanionProject |-> Undefined, id |-> Undefined]

\* What one request can come back with: fetch rejects; the status is not a
\* success and response.text() resolves or rejects; the status is a success
\* and response.json() rejects or resolves to a body.
Outcomes ==
    {[net |-> n, body |-> NoBody] :
        n \in {"fetchThrows", "notOk", "notOkTextThrows", "jsonThrows"}}
    \cup {[net |-> "ok", body |-> b] : b \in Bodies}
NoOutcome == [net |-> None, body |-> NoBody]

\* Line 90: data.response?.cloudaicompanionProject?.id
ManagedProjectId(d) ==
    IF d.kind # "object" THEN Undefined
    ELSE IF d.response \in {Undefined, Null} THEN Undefined
    ELSE IF d.cloudaicompanionProject \in {Undefined, Null} THEN Undefined
    ELSE d.id

\* data.done
DoneOf(d) == IF d.kind = "object" THEN d.done ELSE Undefined

Ctl(c, l, v) == [ctl |-> c, line |-> l, val |-> v]

\* The try block with the tests of lines 91 and 94 in the other order.
TryBlockFallbackFirst(o, p, a, m) ==
    IF o.net = "fetchThrows" THEN Ctl("throw", 70, None)
    ELSE IF o.net = "notOkTextThrows" THEN Ctl("throw", 81, None)
    ELSE IF o.net = "notOk" THEN Ctl("break", 83, None)
    ELSE IF o.net = "jsonThrows" THEN Ctl("throw", 86, None)
    ELSE IF o.body.kind = "null" THEN Ctl("throw", 90, None)
    ELSE IF Truthy(DoneOf(o.body)) /\ Truthy(p)
    THEN Ctl("return", 95, p)
    ELSE IF Truthy(DoneOf(o.body)) /\ Truthy(ManagedProjectId(o.body))
    THEN Ctl("return", 92, ManagedProjectId(o.body))
    ELSE IF a < m - 1 THEN Ctl("sleep", 101, None)
    ELSE Ctl("next", 102, None)

\* The try block with the test of line 94 reduced to "if (projectId)".
TryBlockFallbackAnyway(o, p, a, m) ==
    IF o.net = "fetchThrows" THEN Ctl("throw", 70, None)
    ELSE IF o.net = "notOkTextThrows" THEN Ctl("throw", 81, None)
    ELSE IF o.net = "notOk" THEN Ctl("break", 83, None)
    ELSE IF o.net = "jsonThrows" THEN Ctl("throw", 86, None)
    ELSE IF o.body.kind = "null" THEN Ctl("throw", 90, None)
    ELSE IF Truthy(DoneOf(o.body)) /\ Truthy(ManagedProjectId(o.body))
    THEN Ctl("return", 92, ManagedProjectId(o.body))
    ELSE IF Truthy(p) THEN Ctl("return", 95, p)
    ELSE IF a < m - 1 THEN Ctl("sleep", 101, None)
    ELSE Ctl("next", 102, None)

\* The try block without the test of line 99: it sleeps after every
\* response that does not end the call.
TryBlockAlwaysSleeps(o, p, a, m) ==
    IF o.net = "fetchThrows" THEN Ctl("throw", 70, None)
    ELSE IF o.net = "notOkTextThrows" THEN Ctl("throw", 81, None)
    ELSE IF o.net = "notOk" THEN Ctl("break", 83, None)
    ELSE IF o.net = "jsonThrows" THEN Ctl("throw", 86, None)
    ELSE IF o.body.kind = "null" THEN Ctl("throw", 90, None)
    ELSE IF Truthy(DoneOf(o.body)) /\ Truthy(ManagedProjectId(o.body))
    THEN Ctl("return", 92, ManagedProjectId(o.body))
    ELSE IF Truthy(DoneOf(o.body)) /\ Truthy(p) THEN Ctl("return", 95, p)
    ELSE Ctl("sleep", 101, None)

\* Lines 70-102, the body of the try block, for the outcome o of the request:
\* how control leaves it.  "throw" is an exception raised inside the block.
TryBlock(o, p, a, m) ==
    IF o.net = "fetchThrows" THEN Ctl("throw", 70, None)
    ELSE IF o.net = "notOkTextThrows" THEN Ctl("throw", 81, None)
    ELSE IF o.net = "notOk" THEN Ctl("break", 83, None)
    ELSE IF o.net = "jsonThrows" THEN Ctl("throw", 86, None)
    \* reading a property of null raises a TypeError
    ELSE IF o.body.kind = "null" THEN Ctl("throw", 90, None)
    ELSE LET managedProjectId == ManagedProjectId(o.body)
             done == DoneOf(o.body)
         IN  IF Truthy(done) /\ Truthy(managedProjectId)
             THEN Ctl("return", 92, managedProjectId)
             ELSE IF Truthy(done) /\ Truthy(p)
             THEN Ctl("return", 95, p)
             ELSE IF a < m - 1
             THEN Ctl("sleep", 101, None)
             ELSE Ctl("next", 102, None)

\* The try statement without its catch clause: exceptions leave the call.
IterationNoCatch(o, p, a, m) == TryBlock(o, p, a, m)

\* The try statement with a catch clause that goes on to the next attempt
\* at the same endpoint, and a failure status doing the same.
IterationRetries(o, p, a, m) ==
    IF TryBlock(o, p, a, m).ctl \in {"throw", "break"}
    THEN Ctl("next", 105, None)
    ELSE TryBlock(o, p, a, m)

\* Lines 69-106: the try statement; the catch clause turns every exception
\* of the block into a break.
Iteration(o, p, a, m) ==
    LET r == TryBlock(o, p, a, m)
    IN  IF r.ctl = "throw" THEN Ctl("break", 105, None) ELSE r

\* The loop heads leaving the outer loop when an endpoint's attempts are
\* used up.
LoopHeadStops(e, a, m, n) ==
    IF e > n THEN [exit |-> TRUE, endpoint |-> e, attempt |-> a]
    ELSE IF a < m THEN [exit |-> FALSE, endpoint |-> e, attempt |-> a]
    ELSE [exit |-> TRUE, endpoint |-> e, attempt |-> a]

\* The loop heads with the attempt counter declared outside the outer
\* loop: once it reaches m no later endpoint is asked.
LoopHeadKeepsAttempt(e, a, m, n) ==
    IF e > n THEN [exit |-> TRUE, endpoint |-> e, attempt |-> a]
    ELSE IF a < m THEN [exit |-> FALSE, endpoint |-> e, attempt |-> a]
    ELSE [exit |-> TRUE, endpoint |-> n + 1, attempt |-> a]

\* The loop heads with the test "attempt <= maxAttempts".
LoopHeadOffByOne(e, a, m, n) ==
    IF e > n THEN [exit |-> TRUE, endpoint |-> e, attempt |-> a]
    ELSE IF a <= m THEN [exit |-> FALSE, endpoint |-> e, attempt |-> a]
    ELSE IF e + 1 > n THEN [exit |-> TRUE, endpoint |-> e + 1, attempt |-> 0]
    ELSE [exit |-> FALSE, endpoint |-> e + 1, attempt |-> 0]

\* The loop heads of lines 67-68, from endpoint e and attempt a, with n
\* endpoints in the list: the next request to send, or the end of the outer
\* loop.
RECURSIVE LoopHead(_, _, _, _)
LoopHead(e, a, m, n) ==
    IF e > n THEN [exit |-> TRUE, endpoint |-> e, attempt |-> a]
    ELSE IF a < m THEN [exit |-> FALSE, endpoint |-> e, attempt |-> a]
    ELSE LoopHead(e + 1, 0, m, n)

Event(ev, e, a, l, v) ==
    [ev |-> ev, endpoint |-> e, attempt |-> a, line |-> l, val |-> v]

OnboardInit ==
    /\ pc = "idle"
    /\ tierId = None
    /\ projectId = None
    /\ maxAttempts = 0
    /\ requestBody = BuildRequestBody(None, Null)
    /\ endpointCount = 0
    /\ endpoint = 0
    /\ attempt = 0
    /\ data = NoOutcome
    /\ result = None
    /\ sent = <<>>
    /\ trace = <<>>

\* Control reaches the loop heads at endpoint e, attempt a, with the history
\* h: either the next request is sent (lines 70-78, its body the object
\* requestBody as JSON text) and the call awaits it, or the loops are over
\* and the call returns null (line 110).
Continue(e, a, h) ==
    LET n == LoopHead(e, a, maxAttempts', endpointCount')
    IN  /\ endpoint' = n.endpoint
        /\ attempt' = n.attempt
        /\ IF n.exit
           THEN /\ pc' = "returned"
                /\ result' = Null
                /\ sent' = sent
                /\ trace' = Append(h, Event("return", n.endpoint, n.attempt,
                                            110, Null))
           ELSE /\ pc' = "fetching"
                /\ result' = result
                /\ sent' = Append(sent, requestBody')
                /\ trace' = Append(h, Event("request", n.endpoint, n.attempt,
                                            70, None))

\* onboardUser is called while the endpoint list has n entries: lines 47-65,
\* then the first request or the return.
Call(tier, p, m, n) ==
    /\ pc = "idle"
    /\ endpointCount' = n
    /\ tierId' = tier
    /\ projectId' = p
    /\ maxAttempts' = m
    /\ requestBody' = BuildRequestBody(tier, p)
    /\ data' = data
    /\ Continue(1, 0, trace)
    /\ UNCHANGED <<sessionVars, tierVars>>

\* The awaited request settles with outcome o; the call runs on to its next
\* await or to its end.
Settle(o) ==
    /\ pc = "fetching"
    /\ data' = o
    /\ UNCHANGED <<sessionVars, tierVars>>
    /\ UNCHANGED <<tierId, projectId, maxAttempts, requestBody, endpointCount>>
    /\ LET r == Iteration(o, projectId, attempt, maxAttempts)
           h == Append(trace, Event("response", endpoint, attempt, 70, None))
       IN  CASE r.ctl = "return" ->
                  /\ pc' = "returned"
                  /\ result' = r.val
                  /\ trace' = Append(h, Event("return", endpoint, attempt,
                                              r.line, r.val))
                  /\ UNCHANGED <<endpoint, attempt, sent>>
             [] r.ctl = "throw" ->
                  /\ pc' = "threw"
                  /\ trace' = Append(h, Event("throw", endpoint, attempt,
                                              r.line, None))
                  /\ UNCHANGED <<endpoint, attempt, result, sent>>
             [] r.ctl = "sleep" ->
                  /\ pc' = "sleeping"
                  /\ trace' = Append(h, Event("sleep", endpoint, attempt,
                                              r.line, None))
                  /\ UNCHANGED <<endpoint, attempt, result, sent>>
             [] r.ctl = "break" ->
                  Continue(endpoint + 1, 0,
                           Append(h, Event("break", endpoint, attempt,
                                           r.line, None)))
             [] r.ctl = "next" ->
                  Continue(endpoint, attempt + 1, h)

\* The awaited sleep is over (line 101): attempt++ and the loop heads.
Wake ==
    /\ pc = "sleeping"
    /\ UNCHANGED <<sessionVars, tierVars>>
    /\ UNCHANGED <<tierId, projectId, maxAttempts, requestBody, endpointCount,
                   data>>
    /\ Continue(endpoint, attempt + 1, trace)

OnboardNext ==
    \/ \E tier \in TierArgs, p \in ProjectArgs, m \in MaxAttemptsArgs,
          n \in EndpointCounts :
           Call(tier, p, m, n)
    \/ \E o \in Outcomes : Settle(o)
    \/ Wake

(***************************************************************************)
(* getDefaultTierId (lines 20-34).  Values of several JavaScript types     *)
(* meet here, so each carries its type: kind is "undefined", "null",       *)
(* "string", "object" or "array".                                          *)
(***************************************************************************)
JsUndefined == [kind |-> "undefined"]
JsNull == [kind |-> "null"]
JsString(x) == [kind |-> "string", text |-> x]
NotCalled == [kind |-> "none"]

\* The entries a tier list can hold: descriptors with an id and with
\* isDefault true, false or missing, and null.
TierIds == {"free-tier", "standard-tier"}
TierEntries ==
    {[kind |-> "object", id |-> i, isDefault |-> d] :
        i \in TierIds, d \in {True, False, Undefined}}
    \cup {JsNull}
\* The arguments tried: arrays of up to MaxTiers entries, undefined, null.
TierLists ==
    {[kind |-> "array", items |-> l] :
        l \in UNION {[1 .. n -> TierEntries] : n \in 0 .. MaxTiers}}
    \cup {JsUndefined, JsNull}

\* tier?.isDefault, as a condition
IsDefaultEntry(tier) == tier.kind = "object" /\ Truthy(tier.isDefault)
\* tier?.id
EntryId(tier) == IF tier.kind = "object" THEN JsString(tier.id) ELSE JsUndefined

\* getDefaultTierId without the fallback of line 33.
getDefaultTierIdNoFallback(tiers) ==
    IF tiers.kind # "array" THEN JsUndefined
    ELSE IF \E i \in DOMAIN tiers.items : IsDefaultEntry(tiers.items[i])
    THEN EntryId(tiers.items[
             CHOOSE i \in DOMAIN tiers.items :
                 /\ IsDefaultEntry(tiers.items[i])
                 /\ \A j \in 1 .. (i - 1) : ~IsDefaultEntry(tiers.items[j])])
    ELSE JsUndefined

\* The loop of lines 26-30 from entry i on: the id of the first entry
\* marked as default, or the fallback of line 33 when the loop ends.
RECURSIVE FindDefault(_, _)
FindDefault(items, i) ==
    IF i > Len(items) THEN EntryId(items[1])
    ELSE IF IsDefaultEntry(items[i]) THEN EntryId(items[i])
    ELSE FindDefault(items, i + 1)

\* Lines 20-34.
getDefaultTierId(tiers) ==
    IF tiers.kind # "array" THEN JsUndefined
    ELSE IF Len(tiers.items) = 0 THEN JsUndefined
    ELSE FindDefault(tiers.items, 1)

TierInit ==
    /\ allowedTiers = NotCalled
    /\ defaultTierId = NotCalled

\* getDefaultTierId(tiers) is called and returns.
GetDefaultTierId(tiers) ==
    /\ allowedTiers = NotCalled
    /\ allowedTiers' = tiers
    /\ defaultTierId' = getDefaultTierId(tiers)
    /\ UNCHANGED <<sessionVars, onboardVars>>

TierNext == \E tiers \in TierLists : GetDefaultTierId(tiers)

(***************************************************************************)
(* Specifications.                                                         *)
(***************************************************************************)
Init == SessionInit /\ OnboardInit /\ TierInit

Next == SessionNext \/ OnboardNext \/ TierNext

\* The whole module: the two components side by side.  They share no
\* variable, so each is also specified on its own below.
Spec == Init /\ [][Next]_vars

\* The session store alone.
SpecSession == Init /\ [][SessionNext]_vars

\* One onboardUser call alone.
SpecOnboard == Init /\ [][OnboardNext]_vars

\* One onboardUser call whose requests and sleeps all finish: a pending
\* fetch settles and a pending sleep resolves.
SpecOnboardFair ==
    /\ SpecOnboard
    /\ WF_vars(\E o \in Outcomes : Settle(o))
    /\ WF_vars(Wake)

\* The responses tried when session calls run between the steps of an
\* onboardUser call: a failure status, a pending operation, a finished one.
SampleOutcomes ==
    {[net |-> "notOk", body |-> NoBody],
     [net |-> "ok",
      body |-> [kind |-> "object", done |-> False, response |-> Undefined,
                cloudaicompanionProject |-> Undefined, id |-> Undefined]],
     [net |-> "ok",
      body |-> [kind |-> "object", done |-> True, response |-> "object",
                cloudaicompanionProject |-> "object", id |-> "managed-X"]]}

\* Session calls arriving while one onboardUser call to a single endpoint is
\* in progress: both live in one module and run on one event loop.
BothNext ==
    \/ \E t \in Tasks, a \in AccountArgs : Derive(t, a)
    \/ Clear
    \/ Call("PRO", "my-project", 2, 1)
    \/ \E o \in SampleOutcomes : Settle(o)
    \/ Wake

SpecBoth == Init /\ [][BothNext]_vars

\* One getDefaultTierId call alone.
SpecTier == Init /\ [][TierNext]_vars

(***************************************************************************)
(* Properties of the session store, checked under SpecSession.             *)
(***************************************************************************)
Calls == DOMAIN sessionLog
IsDerive(i) == sessionLog[i].op = "derive"
IsClear(i) == sessionLog[i].op = "clear"
\* Calls i < j are deriveSessionId calls for the same account key.
SameKey(i, j) ==
    /\ i < j
    /\ IsDerive(i) /\ IsDerive(j)
    /\ Truthy(sessionLog[i].accountEmail)
    /\ sessionLog[i].accountEmail = sessionLog[j].accountEmail
NoClearBetween(i, j) == \A k \in (i + 1) .. (j - 1) : ~IsClear(k)
NoClearSince(i) == \A k \in (i + 1) .. Len(sessionLog) : ~IsClear(k)

\* C1: two deriveSessionId calls for the same non-empty account key with no
\* clearSessionStore between them return the same token, whatever calls
\* lie between them.
C1_SameKeySameToken ==
    \A i, j \in Calls :
        SameKey(i, j) /\ NoClearBetween(i, j)
            => sessionLog[i].ret = sessionLog[j].ret

\* Two calls for one account, by different tasks, with a call for another
\* account between them and the clock advancing.
C1_Witness ==
    /\ Len(sessionLog) = 3
    /\ SameKey(1, 3) /\ NoClearBetween(1, 3)
    /\ IsDerive(2) /\ sessionLog[2].accountEmail \in
            Accounts \ {sessionLog[1].accountEmail}
    /\ sessionLog[2].ret # sessionLog[1].ret
    /\ sessionLog[3].ret = sessionLog[1].ret
    /\ now > ClockStart

\* C2: of the calls that request tasks make for one account key with no
\* clearSessionStore among them, in whatever order the tasks run, exactly
\* the first generates and stores a token; that token stays in the store
\* and every task receives it.
C2_OneTokenPerKey ==
    /\ \A i, j \in Calls :
           SameKey(i, j) /\ NoClearBetween(i, j)
               => /\ sessionLog[j].line = 153
                  /\ sessionLog[j].ret = sessionLog[i].ret
    /\ \A i \in Calls :
           /\ IsDerive(i) /\ Truthy(sessionLog[i].accountEmail)
           /\ NoClearSince(i)
           => /\ sessionLog[i].accountEmail \in DOMAIN runtimeSessionStore
              /\ runtimeSessionStore[sessionLog[i].accountEmail]
                     = sessionLog[i].ret
    /\ \A i \in Calls :
           /\ IsDerive(i) /\ Truthy(sessionLog[i].accountEmail)
           /\ \A h \in 1 .. (i - 1) : ~(SameKey(h, i) /\ NoClearBetween(h, i))
           => sessionLog[i].line = 162

\* Two tasks make the first two calls for an account nobody derived for,
\* and the first task calls again.
C2_Witness ==
    /\ Len(sessionLog) = 3
    /\ SameKey(1, 2) /\ SameKey(2, 3) /\ NoClearBetween(1, 3)
    /\ sessionLog[1].task = "t2" /\ sessionLog[2].task = "t1"
    /\ sessionLog[3].task = "t2"
    /\ sessionLog[1].line = 162
    /\ sessionLog[2].ret = sessionLog[1].ret
    /\ sessionLog[3].ret = sessionLog[1].ret
    /\ runtimeSessionStore[sessionLog[1].accountEmail] = sessionLog[1].ret

\* C8: clearSessionStore empties the store; the first deriveSessionId for an
\* account after it takes the first-time path, returns a token different
\* from every token returned for that account before the clear, and that
\* token is the one stored.
C8_ClearForgets ==
    /\ \A c \in Calls :
           IsClear(c) /\ NoClearSince(c) /\
           (\A k \in (c + 1) .. Len(sessionLog) :
                Falsy(sessionLog[k].accountEmail))
               => DOMAIN runtimeSessionStore = {}
    /\ \A i, j \in Calls :
           SameKey(i, j) /\ ~NoClearBetween(i, j)
               => sessionLog[j].ret # sessionLog[i].ret
    /\ \A c, j \in Calls :
           /\ IsClear(c) /\ c < j
           /\ IsDerive(j) /\ Truthy(sessionLog[j].accountEmail)
           /\ \A k \in (c + 1) .. (j - 1) : ~SameKey(k, j)
           => /\ sessionLog[j].line = 162
              /\ NoClearSince(j) =>
                     runtimeSessionStore[sessionLog[j].accountEmail]
                         = sessionLog[j].ret

\* An account is derived for, the store is cleared, and the account is
\* derived for again, all within one millisecond.
C8_Witness ==
    /\ Len(sessionLog) = 3
    /\ IsClear(2)
    /\ SameKey(1, 3)
    /\ sessionLog[3].line = 162
    /\ sessionLog[3].ret # sessionLog[1].ret
    /\ runtimeSessionStore[sessionLog[3].accountEmail] = sessionLog[3].ret
    /\ now = ClockStart

\* C9 (state part): a call without an account takes the path of line 148,
\* its token differs from the token of every other such call, and no absent
\* key is ever in the store.
C9_FreshEachTime ==
    /\ \A i \in Calls :
           IsDerive(i) /\ Falsy(sessionLog[i].accountEmail)
               => sessionLog[i].line = 148
    /\ \A i, j \in Calls :
           /\ i # j
           /\ IsDerive(i) /\ Falsy(sessionLog[i].accountEmail)
           /\ IsDerive(j) /\ Falsy(sessionLog[j].accountEmail)
           => sessionLog[i].ret # sessionLog[j].ret
    /\ \A k \in DOMAIN runtimeSessionStore : Truthy(k)

\* C9 (step part): a call without an account leaves the store as it was.
C9_StoreUntouched ==
    /\ Len(sessionLog') = Len(sessionLog) + 1
    /\ sessionLog'[Len(sessionLog')].op = "derive"
    /\ Falsy(sessionLog'[Len(sessionLog')].accountEmail)
    => runtimeSessionStore' = runtimeSessionStore

\* C9: when accountEmail is undefined, null or the empty string, every
\* deriveSessionId call returns a fresh token, different from that of any
\* other such call, and the store is the same after the call as before.
C9_NoAccountNoCache == []C9_FreshEachTime /\ [][C9_StoreUntouched]_vars

\* Two calls without an account (undefined, then the empty string) within
\* one millisecond, the store holding one record before and after them.
C9_Witness ==
    /\ Len(sessionLog) = 3
    /\ \A i \in Calls : IsDerive(i)
    /\ sessionLog[1].accountEmail \in Accounts
    /\ sessionLog[2].accountEmail = Undefined
    /\ sessionLog[3].accountEmail = ""
    /\ sessionLog[2].ret # sessionLog[3].ret
    /\ DOMAIN runtimeSessionStore = {sessionLog[1].accountEmail}
    /\ now = ClockStart

\* C11: two different account keys in the store never have the same token,
\* and deriveSessionId calls for two different accounts never return the
\* same token.
C11_KeysNeverShareToken ==
    /\ \A k1, k2 \in DOMAIN runtimeSessionStore :
           k1 # k2 => runtimeSessionStore[k1] # runtimeSessionStore[k2]
    /\ \A i, j \in Calls :
           /\ IsDerive(i) /\ Truthy(sessionLog[i].accountEmail)
           /\ IsDerive(j) /\ Truthy(sessionLog[j].accountEmail)
           /\ sessionLog[i].accountEmail # sessionLog[j].accountEmail
           => sessionLog[i].ret # sessionLog[j].ret

\* Both accounts get their token within the same millisecond.
C11_Witness ==
    /\ Len(sessionLog) = 2
    /\ DOMAIN runtimeSessionStore = Accounts
    /\ sessionLog[1].accountEmail = "a@x.com"
    /\ sessionLog[2].accountEmail = "b@x.com"
    /\ sessionLog[1].ret # sessionLog[2].ret
    /\ now = ClockStart

\* The characters of a text, one by one.
CharAt(s, i) == SubSeq(s, i, i)
HexChars == {HexDigits[i] : i \in DOMAIN HexDigits}
DecChars == {DecDigits[i] : i \in DOMAIN DecDigits}
\* The canonical text of a version 4 UUID: 8-4-4-4-12 hexadecimal digits.
IsCanonicalUuid(s) ==
    /\ Len(s) = 36
    /\ \A i \in 1 .. 36 :
           IF i \in {9, 14, 19, 24} THEN CharAt(s, i) = "-"
           ELSE CharAt(s, i) \in HexChars
    /\ CharAt(s, 15) = "4"
    /\ CharAt(s, 20) \in {"8", "9", "a", "b"}
\* The decimal text of a non-negative integer, without leading zeros.
IsDecimal(s) ==
    /\ Len(s) >= 1
    /\ \A i \in 1 .. Len(s) : CharAt(s, i) \in DecChars
    /\ Len(s) > 1 => CharAt(s, 1) # "0"
DigitValue(c) == CHOOSE d \in 0 .. 9 : DecDigits[d + 1] = c
RECURSIVE DecimalValue(_)
DecimalValue(s) ==
    IF Len(s) = 0 THEN 0
    ELSE 10 * DecimalValue(SubSeq(s, 1, Len(s) - 1))
             + DigitValue(CharAt(s, Len(s)))
TokenShape(s) ==
    /\ Len(s) > 36
    /\ IsCanonicalUuid(SubSeq(s, 1, 36))
    /\ IsDecimal(SubSeq(s, 37, Len(s)))
TokenTime(s) == DecimalValue(SubSeq(s, 37, Len(s)))

\* C13 (state part): every token returned and every token stored is a
\* canonical UUID text followed at once by a decimal number that is a
\* time of the clock no later than now.
C13_ShapeOfTokens ==
    /\ \A i \in Calls :
           IsDerive(i) => /\ TokenShape(sessionLog[i].ret)
                          /\ TokenTime(sessionLog[i].ret) \in ClockStart .. now
    /\ \A k \in DOMAIN runtimeSessionStore :
           TokenShape(runtimeSessionStore[k])

\* C13 (step part): a call that generates a token (lines 148, 162) returns
\* one that ends in the decimal text of the clock at the call.
C13_StampedNow ==
    /\ Len(sessionLog') = Len(sessionLog) + 1
    /\ sessionLog'[Len(sessionLog')].op = "derive"
    /\ sessionLog'[Len(sessionLog')].line \in {148, 162}
    => /\ TokenShape(sessionLog'[Len(sessionLog')].ret)
       /\ TokenTime(sessionLog'[Len(sessionLog')].ret) = now

\* C13: every token deriveSessionId returns is the canonical text of a
\* random UUID immediately followed by the decimal text of the millisecond
\* clock read when the token was generated, with nothing between them.
C13_TokenShape == []C13_ShapeOfTokens /\ [][C13_StampedNow]_vars

\* The second token of the process, generated at millisecond 10, is
\* returned from the store by a later call.
C13_Witness ==
    /\ Len(sessionLog) = 3
    /\ sessionLog[2].line = 162 /\ sessionLog[3].line = 153
    /\ sessionLog[3].ret =
           "00000000-0000-4000-8000-000000000002" \o toString(ClockStart + 1)
    /\ Len(sessionLog[3].ret) = 38

\* C19 (one step): what a step can do to the record of key k.
C19_KeyStep(k) ==
    LET before == k \in DOMAIN runtimeSessionStore
        after == k \in DOMAIN runtimeSessionStore'
        grew == Len(sessionLog') = Len(sessionLog) + 1
        last == sessionLog'[Len(sessionLog')]
    IN  /\ ~before /\ after
           => /\ grew /\ last.op = "derive" /\ last.accountEmail = k
              /\ last.line = 162 /\ runtimeSessionStore'[k] = last.ret
        /\ before /\ after
           => runtimeSessionStore'[k] = runtimeSessionStore[k]
        /\ before /\ ~after
           => /\ grew /\ last.op = "clear"
              /\ DOMAIN runtimeSessionStore' = {}
        /\ grew /\ last.op = "derive" /\ last.accountEmail = k /\ Truthy(k)
           => after /\ runtimeSessionStore'[k] = last.ret
        /\ grew /\ last.op = "clear" => ~after

\* C19: per account key the store goes from absent to present on the first
\* deriveSessionId for the key, stays present with the same token on every
\* later one, and goes to absent only by clearSessionStore, which makes
\* every key absent; no token is overwritten, no key removed on its own.
C19_StoreTransitions == [][\A k \in AccountArgs : C19_KeyStep(k)]_vars

\* Two accounts got their records and one clearSessionStore removed both.
C19_Witness ==
    /\ Len(sessionLog) = 3
    /\ IsDerive(1) /\ sessionLog[1].accountEmail = "a@x.com"
    /\ IsDerive(2) /\ sessionLog[2].accountEmail = "b@x.com"
    /\ IsClear(3)
    /\ DOMAIN runtimeSessionStore = {}

(***************************************************************************)
(* Properties across the two components, checked under SpecBoth.           *)
(***************************************************************************)
\* Whatever request a call for an account carries, it returns the same
\* value by the same path and leaves the same store.
C20_RequestIgnored ==
    \A a \in AccountArgs : \A t1, t2 \in Tasks :
        deriveSessionId(runtimeSessionStore, AnthropicRequest(t1), a,
                        draws + 1, now)
        = deriveSessionId(runtimeSessionStore, AnthropicRequest(t2), a,
                          draws + 1, now)

\* A deriveSessionId step leaves the record of every key other than its own
\* as it was: present with the same token, or absent.
C20_OtherKeysKept ==
    /\ Len(sessionLog') = Len(sessionLog) + 1
    /\ sessionLog'[Len(sessionLog')].op = "derive"
    => /\ \A k \in DOMAIN runtimeSessionStore' \cup DOMAIN runtimeSessionStore :
              k # sessionLog'[Len(sessionLog')].accountEmail
                  => /\ k \in DOMAIN runtimeSessionStore'
                     /\ k \in DOMAIN runtimeSessionStore
                     /\ runtimeSessionStore'[k] = runtimeSessionStore[k]
       /\ DOMAIN runtimeSessionStore' \subseteq AccountArgs

\* A step of the onboardUser call leaves the store, the draws made and the
\* session history as they were.
C20_OnboardKeepsStore ==
    onboardVars' # onboardVars
        => /\ runtimeSessionStore' = runtimeSessionStore
           /\ draws' = draws
           /\ sessionLog' = sessionLog

Steps == DOMAIN trace
LastStep == trace[Len(trace)]
\* The response with status ok, a body with done true.
DoneTrue(o) == o.net = "ok" /\ o.body.kind = "object" /\ o.body.done = True
\* The response carries response.cloudaicompanionProject.id, not empty.
CarriesManagedId(o) ==
    /\ o.net = "ok" /\ o.body.kind = "object"
    /\ o.body.response = "object"
    /\ o.body.cloudaicompanionProject = "object"
    /\ o.body.id \notin {Undefined, ""}
\* The caller supplied a project identifier (not null, not empty).
Supplied == projectId \notin {Null, None, ""}
\* The request failed: fetch threw, or the status was no success.
Failed(o) == o.net \in {"fetchThrows", "notOk", "notOkTextThrows"}
Requests == {i \in Steps : trace[i].ev = "request"}
Responses == {i \in Steps : trace[i].ev = "response"}
LastResponse == CHOOSE i \in Responses : \A j \in Responses : j <= i
Abandoned(e) == \E i \in Steps : trace[i].ev = "break" /\ trace[i].endpoint = e
Exhausted(e) ==
    /\ ~Abandoned(e)
    /\ Cardinality({i \in Responses : trace[i].endpoint = e}) = maxAttempts

\* C3: when a successful response has done true and a managed project
\* identifier, the call has returned that identifier, with the caller's
\* projectId supplied or not; the return is the step right after the
\* response, so no request and no sleep follows the response.
C3_ManagedIdReturned ==
    DoneTrue(data) /\ CarriesManagedId(data)
        => /\ pc = "returned"
           /\ result = data.body.id
           /\ LastStep.ev = "return" /\ LastStep.val = data.body.id
           /\ trace[Len(trace) - 1].ev = "response"
           /\ Cardinality(Requests) = Cardinality(Responses)
           /\ Len(sent) = Cardinality(Requests)

\* The second endpoint completes at its second poll, the caller having
\* supplied a projectId.
C3_Witness ==
    /\ DoneTrue(data) /\ CarriesManagedId(data)
    /\ projectId = "my-project" /\ tierId = "PRO"
    /\ endpoint = 2 /\ attempt = 1
    /\ result = "managed-X"
    /\ \E i \in Steps : trace[i].ev = "sleep"

\* C4: when a request fails (fetch throws, or the status is no success) the
\* call abandons the endpoint: the next step after the break is the first
\* request to the next endpoint, or the return of null when it was the last
\* endpoint; there is no sleep and no error leaves the call.
C4_FailureAbandonsEndpoint ==
    Failed(data)
        => LET i == LastResponse
               e == trace[i].endpoint
           IN  /\ Len(trace) = i + 2
               /\ trace[i + 1].ev = "break" /\ trace[i + 1].endpoint = e
               /\ \/ /\ trace[i + 2].ev = "request"
                     /\ trace[i + 2].endpoint = e + 1
                     /\ trace[i + 2].attempt = 0
                     /\ pc = "fetching"
                  \/ /\ trace[i + 2].ev = "return"
                     /\ trace[i + 2].val = Null
                     /\ e = endpointCount
                     /\ pc = "returned" /\ result = Null

\* The first poll of the first endpoint fails with attempts left, and the
\* second endpoint is asked.
C4_Witness ==
    /\ data.net = "notOk"
    /\ maxAttempts = 2
    /\ trace[LastResponse].endpoint = 1 /\ trace[LastResponse].attempt = 0
    /\ pc = "fetching" /\ endpoint = 2 /\ attempt = 0

\* C5: the call returns null exactly when every endpoint was abandoned or
\* was polled maxAttempts times, and the last response did not complete
\* the call.
C5_NullIffAllEndpointsDone ==
    pc = "returned"
        => (result = Null
              <=> /\ \A e \in Endpoints : Abandoned(e) \/ Exhausted(e)
                  /\ ~(DoneTrue(data) /\ (CarriesManagedId(data) \/ Supplied)))

\* The first endpoint is abandoned, the second answers not done twice.
C5_Witness ==
    /\ pc = "returned" /\ result = Null
    /\ endpointCount = 2
    /\ maxAttempts = 2
    /\ Abandoned(1) /\ Exhausted(2)
    /\ data.net = "ok" /\ data.body.done = False

\* C6: the call never ends with an error, and what it returns is null or a
\* non-empty string.
C6_StringOrNull ==
    /\ pc # "threw"
    /\ pc = "returned" =>
          /\ LastStep.ev = "return" /\ LastStep.val = result
          /\ result = Null \/ result \in {"managed-X", "my-project"}

\* Both endpoints raised an exception inside the try block, the second one
\* by answering with the JSON value null.
C6_Witness ==
    /\ pc = "returned" /\ result = Null
    /\ endpointCount = 2
    /\ data.net = "ok" /\ data.body.kind = "null"
    /\ \A e \in Endpoints :
          \E i \in Steps : /\ trace[i].ev = "break" /\ trace[i].line = 105
                           /\ trace[i].endpoint = e

\* C7: when a successful response has done true and no managed project
\* identifier and the caller supplied a projectId, the call has returned
\* that projectId; and the call returns the caller's projectId (line 95)
\* in that case only.
C7_FallbackToProjectId ==
    /\ DoneTrue(data) /\ ~CarriesManagedId(data) /\ Supplied
          => /\ pc = "returned"
             /\ result = projectId
             /\ LastStep.ev = "return" /\ LastStep.line = 95
    /\ pc = "returned" /\ LastStep.line = 95
          => DoneTrue(data) /\ ~CarriesManagedId(data) /\ Supplied
    /\ pc = "returned" /\ Supplied /\ result = projectId
          => DoneTrue(data)

\* A FREE tier call with a projectId gets, at its second poll, done true
\* and an empty identifier.
C7_Witness ==
    /\ DoneTrue(data) /\ data.body.id = ""
    /\ data.body.cloudaicompanionProject = "object"
    /\ tierId = "FREE" /\ projectId = "my-project"
    /\ attempt = 1
    /\ pc = "returned" /\ result = "my-project"

\* C10: every body sent has cloudaicompanionProject exactly when the tier is
\* not FREE and a project identifier was supplied, and then it is that
\* identifier.
C10_ProjectFieldRule ==
    \A i \in DOMAIN sent :
        /\ "cloudaicompanionProject" \in DOMAIN sent[i]
              <=> tierId # "FREE" /\ Supplied
        /\ "cloudaicompanionProject" \in DOMAIN sent[i]
              => sent[i].cloudaicompanionProject = projectId
        /\ sent[i].tierId = tierId

\* Four requests, two to each endpoint, of a FREE tier call with a
\* projectId.
C10_Witness ==
    /\ Len(sent) = 4
    /\ tierId = "FREE" /\ projectId = "my-project"
    /\ sent[4].metadata.duetProject = "my-project"
    /\ "cloudaicompanionProject" \notin DOMAIN sent[4]
    /\ trace[LastResponse].endpoint = 2 /\ trace[LastResponse].attempt = 1

\* C14 as stated: once a successful response has done true, the call has
\* returned, the return being the step right after that response.
C14_DoneIsTerminal ==
    DoneTrue(data)
        => /\ pc = "returned"
           /\ LastStep.ev = "return"
           /\ trace[Len(trace) - 1].ev = "response"

\* The response lacks what the call looks for: the body is no object, or
\* has no done, or has no response.cloudaicompanionProject.id.
LacksFields(o) ==
    /\ o.net = "ok"
    /\ \/ o.body.kind # "object"
       \/ o.body.done = Undefined
       \/ o.body.response # "object"
       \/ o.body.cloudaicompanionProject # "object"
       \/ o.body.id = Undefined

\* C15 as stated: a successful response that lacks the expected fields and
\* does not say done is handled as not done: the endpoint is not abandoned,
\* and unless it was the endpoint's last attempt the call sleeps and asks
\* the same endpoint again.
C15_MalformedIsNotDone ==
    LacksFields(data) /\ ~DoneTrue(data)
        => LET i == LastResponse
           IN  /\ pc # "threw"
               /\ trace[i + 1].ev # "break"
               /\ trace[i].attempt < maxAttempts - 1
                     => /\ trace[i + 1].ev = "sleep"
                        /\ Len(trace) > i + 1
                              => /\ trace[i + 2].ev = "request"
                                 /\ trace[i + 2].endpoint = trace[i].endpoint
                                 /\ trace[i + 2].attempt = trace[i].attempt + 1

SleepsAt(e) == {i \in Steps : trace[i].ev = "sleep" /\ trace[i].endpoint = e}

\* C16: every sleep comes right after a response to an attempt that is not
\* the endpoint's last one, the response being a successful one that did
\* not end the call; the step after a sleep is the next attempt at the same
\* endpoint; so no sleep follows an endpoint's last attempt or comes right
\* before a move to the next endpoint or a return, and an endpoint has at
\* most maxAttempts - 1 sleeps.
C16_SleepOnlyBetweenAttempts ==
    /\ \A i \in Steps :
           trace[i].ev = "sleep"
               => /\ i > 1 /\ trace[i - 1].ev = "response"
                  /\ trace[i - 1].endpoint = trace[i].endpoint
                  /\ trace[i - 1].attempt = trace[i].attempt
                  /\ trace[i].attempt < maxAttempts - 1
                  /\ i < Len(trace)
                        => /\ trace[i + 1].ev = "request"
                           /\ trace[i + 1].endpoint = trace[i].endpoint
                           /\ trace[i + 1].attempt = trace[i].attempt + 1
    /\ \A i \in Steps :
           /\ trace[i].ev \in {"break", "return"}
              \/ (trace[i].ev = "request" /\ trace[i].attempt = 0)
           /\ i > 1
           => trace[i - 1].ev # "sleep"
    /\ \A i \in Responses :
           trace[i].attempt = maxAttempts - 1 /\ i < Len(trace)
               => trace[i + 1].ev # "sleep"
    /\ \A e \in Endpoints :
           Cardinality(SleepsAt(e)) <= maxAttempts - 1
           \/ (maxAttempts = 0 /\ SleepsAt(e) = {})
    /\ pc = "sleeping" <=> (trace # <<>> /\ LastStep.ev = "sleep")
    /\ pc = "sleeping"
           => /\ data.net = "ok" /\ data.body.kind # "null"
              /\ ~(DoneTrue(data) /\ (CarriesManagedId(data) \/ Supplied))

\* With maxAttempts 2, both endpoints were asked twice and the call slept
\* once at each before returning null.
C16_Witness ==
    /\ pc = "returned" /\ result = Null
    /\ maxAttempts = 2 /\ endpointCount = 2
    /\ Cardinality(SleepsAt(1)) = 1 /\ Cardinality(SleepsAt(2)) = 1
    /\ Len(sent) = 4

RequestsAt(e) == {i \in Requests : trace[i].endpoint = e}
\* The request before request j: two steps back when the answer to it
\* exhausted its endpoint, three when a sleep or a break came between.
PrevRequest(j) == IF trace[j - 1].ev = "response" THEN j - 2 ELSE j - 3

\* C17: the first request is attempt 0 at the first endpoint; a request is
\* sent only after the one before it was answered, and is the next attempt
\* at the same endpoint or attempt 0 at the following endpoint, the earlier
\* endpoint having been abandoned or exhausted; an endpoint gets at most
\* maxAttempts requests, numbered from 0 whatever happened before, and an
\* endpoint left behind without a return is followed by a request to the
\* next one.
C17_SequentialOrdered ==
    /\ \A j \in Requests :
           /\ trace[j].endpoint \in Endpoints
           /\ trace[j].attempt \in 0 .. (maxAttempts - 1)
           /\ (\A i \in Requests : i >= j)
                 => trace[j].endpoint = 1 /\ trace[j].attempt = 0
    /\ \A j \in Steps :
           trace[j].ev = "request" /\ j > 1
               => LET i == PrevRequest(j)
                  IN
                  /\ i >= 1 /\ trace[i].ev = "request"
                  /\ trace[i + 1].ev = "response"
                  /\ \A k \in (i + 2) .. (j - 1) :
                         trace[k].ev \in {"sleep", "break"}
                  /\ \/ /\ trace[j].endpoint = trace[i].endpoint
                        /\ trace[j].attempt = trace[i].attempt + 1
                     \/ /\ trace[j].endpoint = trace[i].endpoint + 1
                        /\ trace[j].attempt = 0
                        /\ Abandoned(trace[i].endpoint)
                              \/ Exhausted(trace[i].endpoint)
    /\ Cardinality(Requests) - Cardinality(Responses)
           = (IF pc = "fetching" THEN 1 ELSE 0)
    /\ \A e \in Endpoints :
           /\ Cardinality(RequestsAt(e)) <= maxAttempts
           /\ \A i, j \in RequestsAt(e) :
                  i # j => trace[i].attempt # trace[j].attempt
    /\ \A e \in Endpoints :
           /\ e < endpointCount /\ maxAttempts >= 1
           /\ Abandoned(e) \/ Exhausted(e)
           /\ ~\E i \in Steps : trace[i].ev = "return" /\ trace[i].endpoint = e
           => \E j \in RequestsAt(e + 1) : trace[j].attempt = 0

\* The first endpoint used up both of its attempts; the second attempt at
\* the second endpoint is under way.
C17_Witness ==
    /\ maxAttempts = 2 /\ endpointCount = 2
    /\ Exhausted(1)
    /\ pc = "fetching" /\ endpoint = 2 /\ attempt = 1
    /\ Len(sent) = 4

\* C18 (state part): a call sends at most endpointCount * maxAttempts
\* requests, and with maxAttempts 0 or no endpoint it has returned null
\* without sending any.
C18_RequestBudget ==
    /\ Len(sent) <= endpointCount * maxAttempts
    /\ Len(sent) = Cardinality(Requests)
    /\ pc # "idle" /\ (maxAttempts = 0 \/ endpointCount = 0)
           => pc = "returned" /\ result = Null /\ sent = <<>>
    /\ pc \in {"idle", "fetching", "sleeping", "returned"}

\* C18: when every request and every sleep finishes, a call that was made
\* returns, having sent at most endpointCount * maxAttempts requests; with
\* maxAttempts 0 or an empty endpoint list it returns null and sends none.
C18_Terminates ==
    /\ []C18_RequestBudget
    /\ (pc # "idle") ~> (pc = "returned")

\* A call that used its whole budget: two endpoints, two attempts each.
C18_Witness ==
    /\ pc = "returned"
    /\ endpointCount = 2 /\ maxAttempts = 2
    /\ Len(sent) = endpointCount * maxAttempts
    /\ data.net = "ok" /\ data.body.kind = "primitive"

(***************************************************************************)
(* Properties of getDefaultTierId, checked under SpecTier.                 *)
(***************************************************************************)
TierCalled == allowedTiers # NotCalled
NonEmptyList == allowedTiers.kind = "array" /\ Len(allowedTiers.items) > 0
Flagged(i) ==
    /\ allowedTiers.items[i].kind = "object"
    /\ allowedTiers.items[i].isDefault = True
\* The entry the rule selects: the first one flagged, else the first one.
SelectedEntry ==
    IF \E i \in DOMAIN allowedTiers.items : Flagged(i)
    THEN allowedTiers.items[
             CHOOSE i \in DOMAIN allowedTiers.items :
                 Flagged(i) /\ \A j \in DOMAIN allowedTiers.items :
                                   Flagged(j) => i <= j]
    ELSE allowedTiers.items[1]

\* C12 as stated: for a non-empty list the helper returns the selected
\* element itself; for an empty or absent list it returns undefined.
C12_ReturnsElement ==
    TierCalled
        => IF NonEmptyList THEN defaultTierId = SelectedEntry
           ELSE defaultTierId = JsUndefined

\* C12 as amended: for a non-empty list the helper returns the id of the
\* selected element (undefined when that element is null); for an empty or
\* absent list it returns undefined.
C12_ReturnsIdOfElement ==
    TierCalled
        => IF NonEmptyList
           THEN IF SelectedEntry.kind = "object"
                THEN defaultTierId = JsString(SelectedEntry.id)
                ELSE defaultTierId = JsUndefined
           ELSE defaultTierId = JsUndefined

\* A list of three whose second and third entries are flagged: the id of
\* the second is returned.
C12_Witness ==
    /\ NonEmptyList /\ Len(allowedTiers.items) = 3
    /\ ~Flagged(1) /\ Flagged(2) /\ Flagged(3)
    /\ allowedTiers.items[1].kind = "object"
    /\ allowedTiers.items[1].id = "free-tier"
    /\ allowedTiers.items[2].id = "standard-tier"
    /\ allowedTiers.items[3].id = "free-tier"
    /\ defaultTierId = JsString("standard-tier")

====
